---- MODULE Spec2Model ----
(***************************************************************************)
(* playchip.py: the patcher (patchexe), the dumper (readexe), the size     *)
(* check (checkexe), the levelset header parser (LevelsetInfo) and the     *)
(* three command-line operations (initialize, dump, play), over a model    *)
(* of the installed chips.exe as a byte file.                              *)
(*                                                                         *)
(* Strings are sequences of byte values.  An optional argument is <<>>     *)
(* (Python's None) or <<v>> (the value v).                                 *)
(***************************************************************************)
EXTENDS Integers, Sequences, FiniteSets, TLC

\* ------------------------------------------------------------ bounds

\* Strings of every length 0..MaxStrLen are offered to the patcher.
MaxStrLen == 18

\* ------------------------------------------------------------ constants

None == <<>>
Some(v) == <<v>>

\* "CHIPS.DAT"
DEFAULT_DAT == <<67, 72, 73, 80, 83, 46, 68, 65, 84>>
\* "./chip.ini"
DEFAULT_INI == <<46, 47, 99, 104, 105, 112, 46, 105, 110, 105>>

\* len("CHIPS.DAT")
DAT_LENGTH == Len(<<67, 72, 73, 80, 83, 46, 68, 65, 84>>)
\* len("entpack.ini")
INI_LENGTH == Len(<<101, 110, 116, 112, 97, 99, 107, 46, 105, 110, 105>>)
\* len("Chip's Challenge")
HEADING_LENGTH ==
    Len(<<67, 104, 105, 112, 39, 115, 32, 67, 104, 97, 108, 108, 101, 110, 103, 101>>)

CHIPS_EXE_SIZE == 267776

\* 0x4A68
INI_OFFSET == 19048
\* 0x4A74
HEADING_OFFSET == 19060
\* 0x4AD4
DAT_OFFSET == 19156

\* 0x91c0, 0xba14, 0xbb1c
ENDLEVEL_OFFSETS == <<37312, 47636, 47900>>
\* 0x91b9, 0xbb14
FAKEENDLEVEL_OFFSETS == <<37305, 47892>>
\* 0x9f85, 0xa6d9
CREDITSLEVEL_OFFSETS == <<40837, 42713>>

\* 0xbb2b
DECADE_OFFSET == 47915
\* ('\xd1', '\xd2'): off, on
DECADE_VALUES == <<209, 210>>

\* 0x2f2f
SOUND_OFFSET == 12079

\* '\xac\xaa'
CHIPSSIG == <<172, 170>>

\* ------------------------------------------------------------ the file

Max(a, b) == IF a >= b THEN a ELSE b

SeqRange(s) == {s[i] : i \in 1..Len(s)}

\* The offsets of the file whose bytes the model keeps: every byte the
\* patcher or the dumper can touch.  Every other byte of the file is never
\* read, and a write to it only moves the position and the size.
Tracked ==
    UNION {o..(o + MaxStrLen) : o \in {DAT_OFFSET, INI_OFFSET, HEADING_OFFSET}}
    \cup UNION {o..(o + 1) : o \in SeqRange(ENDLEVEL_OFFSETS) \cup SeqRange(FAKEENDLEVEL_OFFSETS)}
    \cup UNION {o..(o + 2) : o \in SeqRange(CREDITSLEVEL_OFFSETS)}
    \cup {DECADE_OFFSET, SOUND_OFFSET}

\* open(exepath, mode): a handle on the file, positioned at its start.
open(f) == [size |-> f.size, data |-> f.data, pos |-> 0]

\* the file a handle leaves behind when it is closed
close(h) == [size |-> h.size, data |-> h.data]

\* file.seek(offset)
seek(h, offset) == [h EXCEPT !.pos = offset]

\* file.write(bytes): at the position, which it advances; a write past the
\* end extends the file (the gap reads as zero bytes).
write(h, bytes) ==
    IF Len(bytes) = 0 THEN h
    ELSE [size |-> Max(h.size, h.pos + Len(bytes)),
          pos  |-> h.pos + Len(bytes),
          data |-> [o \in (h.pos..(h.pos + Len(bytes) - 1)) \cap Tracked |->
                      bytes[o - h.pos + 1]] @@ h.data]

\* how many of n bytes a read at the position gets
Avail(h, n) == IF h.pos >= h.size THEN 0
               ELSE IF h.pos + n <= h.size THEN n ELSE h.size - h.pos

\* file.read(n): the bytes read (fewer than n at the end of the file)
read(h, n) == [i \in 1..Avail(h, n) |-> h.data[h.pos + i - 1]]

\* the handle after file.read(n)
afterread(h, n) == [h EXCEPT !.pos = h.pos + Avail(h, n)]

\* ------------------------------------------------------------ struct

\* struct.pack("<h", value), value in -32768..32767
pack_h(value) ==
    LET u == value % 65536
    IN  <<u % 256, u \div 256>>

\* struct.unpack("<h", two bytes)[0]
unpack_h(b) ==
    LET u == b[1] + 256 * b[2]
    IN  IF u >= 32768 THEN u - 65536 ELSE u

\* struct.unpack("<H", two bytes)[0]
unpack_H(b) == b[1] + 256 * b[2]

\* ------------------------------------------------------------ the patcher

\* writestring without its terminating zero byte
writestring_NoTerminator(h, value, offset) ==
    write(seek(h, offset), value)

\* writestring(file, value, offset)
writestring(h, value, offset) ==
    write(write(seek(h, offset), value), <<0>>)

\* writeword(file, value, offset)
writeword(h, value, offset) ==
    write(seek(h, offset), pack_h(value))

\* a <= b as Python 2 orders them: None is smaller than every number
PyLe(a, b) ==
    IF a = None THEN TRUE
    ELSE IF b = None THEN FALSE
    ELSE a[1] <= b[1]

\* patchdecade(file, enable): the handle after it, and whether its
\* assertion held (the byte is written only if it did)
patchdecade(h, enable) ==
    LET byte == read(seek(h, DECADE_OFFSET), 1)
    IN  IF ~(\E i \in 1..Len(DECADE_VALUES) : byte = <<DECADE_VALUES[i]>>)
        THEN [h |-> afterread(seek(h, DECADE_OFFSET), 1), ok |-> FALSE]
        ELSE [h  |-> write(seek(h, DECADE_OFFSET),
                           IF enable THEN <<DECADE_VALUES[2]>> ELSE <<DECADE_VALUES[1]>>),
              ok |-> TRUE]

\* patchexe's defaults: fakeendlevel from endlevel
ResolveFake(r) ==
    IF r.fakeendlevel = None THEN r.endlevel ELSE r.fakeendlevel

\* patchexe's defaults: creditslevel from the resolved fakeendlevel
ResolveCredits(r) ==
    IF r.creditslevel = None THEN ResolveFake(r) ELSE r.creditslevel

\* the length checks with < for <=
StringTooLong_Strict(r) ==
    \/ r.datfile # None /\ ~(Len(r.datfile[1]) < DAT_LENGTH)
    \/ r.inifile # None /\ ~(Len(r.inifile[1]) < INI_LENGTH)
    \/ r.iniheading # None /\ ~(Len(r.iniheading[1]) < HEADING_LENGTH)

\* patchexe's three length checks: some string argument is too long
StringTooLong(r) ==
    \/ r.datfile # None /\ ~(Len(r.datfile[1]) <= DAT_LENGTH)
    \/ r.inifile # None /\ ~(Len(r.inifile[1]) <= INI_LENGTH)
    \/ r.iniheading # None /\ ~(Len(r.iniheading[1]) <= HEADING_LENGTH)

\* the level checks with 1000 for 999 as the last level
LevelError_Upper1000(endlevel, fakeendlevel, creditslevel) ==
    \/ ~(PyLe(Some(1), endlevel) /\ PyLe(endlevel, Some(1000)))
    \/ ~(PyLe(Some(0), fakeendlevel) /\ PyLe(fakeendlevel, endlevel)
         /\ PyLe(endlevel, Some(1000)))
    \/ ~(\/ creditslevel = Some(0)
         \/ /\ PyLe(Some(1), fakeendlevel) /\ PyLe(fakeendlevel, creditslevel)
            /\ PyLe(creditslevel, endlevel) /\ PyLe(endlevel, Some(1000)))

\* the level checks without "creditslevel == 0 or"
LevelError_NoZeroEscape(endlevel, fakeendlevel, creditslevel) ==
    \/ ~(PyLe(Some(1), endlevel) /\ PyLe(endlevel, Some(999)))
    \/ ~(PyLe(Some(0), fakeendlevel) /\ PyLe(fakeendlevel, endlevel)
         /\ PyLe(endlevel, Some(999)))
    \/ ~(/\ PyLe(Some(1), fakeendlevel) /\ PyLe(fakeendlevel, creditslevel)
         /\ PyLe(creditslevel, endlevel) /\ PyLe(endlevel, Some(999)))

\* patchexe's three level checks: one of them raises ValueError
LevelError(endlevel, fakeendlevel, creditslevel) ==
    \/ ~(PyLe(Some(1), endlevel) /\ PyLe(endlevel, Some(999)))
    \/ ~(PyLe(Some(0), fakeendlevel) /\ PyLe(fakeendlevel, endlevel)
         /\ PyLe(endlevel, Some(999)))
    \/ ~(\/ creditslevel = Some(0)
         \/ /\ PyLe(Some(1), fakeendlevel) /\ PyLe(fakeendlevel, creditslevel)
            /\ PyLe(creditslevel, endlevel) /\ PyLe(endlevel, Some(999)))

\* the opcode chosen with >= for >
CreditsOpcode_NonNegative(creditslevel) ==
    IF creditslevel >= 0 THEN <<124>> ELSE <<117>>

\* the opcode written after the credits level: jl ('\x7c') or jnz ('\x75')
CreditsOpcode(creditslevel) ==
    IF creditslevel > 0 THEN <<124>> ELSE <<117>>

\* writeword at every offset of a list, in order
RECURSIVE writewords(_, _, _, _)
writewords(h, value, offsets, i) ==
    IF i > Len(offsets) THEN h
    ELSE writewords(writeword(h, value, offsets[i]), value, offsets, i + 1)

\* the credits level and, right after each copy, its opcode
RECURSIVE writecredits(_, _, _, _)
writecredits(h, value, offsets, i) ==
    IF i > Len(offsets) THEN h
    ELSE writecredits(write(writeword(h, value, offsets[i]), CreditsOpcode(value)),
                      value, offsets, i + 1)

\* patchexe's writes up to the credits level, in the code's order
WriteFields(h, r) ==
    LET h1 == IF r.datfile # None THEN writestring(h, r.datfile[1], DAT_OFFSET) ELSE h
        h2 == IF r.inifile # None THEN writestring(h1, r.inifile[1], INI_OFFSET) ELSE h1
        h3 == IF r.iniheading # None
              THEN writestring(h2, r.iniheading[1], HEADING_OFFSET) ELSE h2
        h4 == IF r.endlevel # None
              THEN writewords(h3, r.endlevel[1], ENDLEVEL_OFFSETS, 1) ELSE h3
        h5 == IF ResolveFake(r) # None
              THEN writewords(h4, ResolveFake(r)[1], FAKEENDLEVEL_OFFSETS, 1) ELSE h4
    IN  IF ResolveCredits(r) # None
        THEN writecredits(h5, ResolveCredits(r)[1], CREDITSLEVEL_OFFSETS, 1) ELSE h5

\* the sound flag, patchexe's last write
WriteSound(h, r) ==
    IF r.soundon # None
    THEN write(seek(h, SOUND_OFFSET), IF r.soundon[1] THEN <<1>> ELSE <<0>>)
    ELSE h

\* patchexe(exepath, **r) on file f: the file afterwards and how the call
\* ended ("ok" or the exception raised)
patchexe(f, r) ==
    IF StringTooLong(r) THEN [file |-> f, result |-> "StringTooLongError"]
    ELSE IF LevelError(r.endlevel, ResolveFake(r), ResolveCredits(r))
    THEN [file |-> f, result |-> "ValueError"]
    ELSE LET h == WriteFields(open(f), r)
             d == IF r.decade # None THEN patchdecade(h, r.decade[1])
                  ELSE [h |-> h, ok |-> TRUE]
         IN  IF ~d.ok THEN [file |-> close(d.h), result |-> "AssertionError"]
             ELSE [file |-> close(WriteSound(d.h, r)), result |-> "ok"]

\* ------------------------------------------------------------ the dumper

\* readstring(file, offset, maxlen), from the handle's position on
RECURSIVE readchars(_, _, _)
readchars(h, maxlen, s) ==
    IF ~(Len(s) < maxlen) THEN s
    ELSE LET c == read(h, 1)
         IN  IF c = <<>> \/ c = <<0>> THEN s
             ELSE readchars(afterread(h, 1), maxlen, Append(s, c[1]))

readstring(h, offset, maxlen) == readchars(seek(h, offset), maxlen, <<>>)

\* readword(file, offset): the two bytes it unpacks (fewer at the end of
\* the file, where struct.unpack raises)
wordbytes(h, offset) == read(seek(h, offset), 2)

readword(h, offset) == unpack_h(wordbytes(h, offset))

\* readdecade(file)
readdecade(h) == read(seek(h, DECADE_OFFSET), 1) = <<DECADE_VALUES[2]>>

AllWordOffsets ==
    SeqRange(ENDLEVEL_OFFSETS) \cup SeqRange(FAKEENDLEVEL_OFFSETS)
    \cup SeqRange(CREDITSLEVEL_OFFSETS)

NoInfo == [datfile |-> <<>>, inifile |-> <<>>, iniheading |-> <<>>,
           endlevel |-> <<>>, fakeendlevel |-> <<>>, creditslevel |-> <<>>,
           decade |-> FALSE]

\* readexe(exepath) on file f: the report, or the exception raised
readexe(f) ==
    LET h == open(f)
    IN  IF \E o \in AllWordOffsets : Len(wordbytes(h, o)) < 2
        THEN [result |-> "struct.error", info |-> NoInfo]
        ELSE [result |-> "ok",
              info |-> [datfile      |-> readstring(h, DAT_OFFSET, DAT_LENGTH),
                        inifile      |-> readstring(h, INI_OFFSET, INI_LENGTH),
                        iniheading   |-> readstring(h, HEADING_OFFSET, HEADING_LENGTH),
                        endlevel     |-> [i \in 1..Len(ENDLEVEL_OFFSETS) |->
                                            readword(h, ENDLEVEL_OFFSETS[i])],
                        fakeendlevel |-> [i \in 1..Len(FAKEENDLEVEL_OFFSETS) |->
                                            readword(h, FAKEENDLEVEL_OFFSETS[i])],
                        creditslevel |-> [i \in 1..Len(CREDITSLEVEL_OFFSETS) |->
                                            readword(h, CREDITSLEVEL_OFFSETS[i])],
                        decade       |-> readdecade(h)]]

\* checkexe(exepath): the size check passes
checkexe(f) == ~(f.size < CHIPS_EXE_SIZE)

\* ------------------------------------------------------------ the levelset

\* f.read(n) at position pos of a file with the given bytes
slice(bytes, pos, n) ==
    SubSeq(bytes, pos + 1, IF pos + n <= Len(bytes) THEN pos + n ELSE Len(bytes))

\* LevelsetInfo(path) on the bytes of the file: the exception raised, or
\* "ok" and the level count
LevelsetInfo(bytes) ==
    IF slice(bytes, 0, 2) # CHIPSSIG
    THEN [result |-> "NotALevelset", count |-> 0]
    ELSE IF Len(slice(bytes, 4, 2)) < 2
    THEN [result |-> "struct.error", count |-> 0]
    ELSE [result |-> "ok", count |-> unpack_H(slice(bytes, 4, 2))]

\* str.upper() on one ASCII character
upperchar(c) == IF c >= 97 /\ c <= 122 THEN c - 32 ELSE c

\* str.upper()
upper(s) == [i \in 1..Len(s) |-> upperchar(s[i])]

\* s[:n]
prefix(s, n) == SubSeq(s, 1, IF Len(s) < n THEN Len(s) ELSE n)

\* the keyword arguments of a patchexe call
Request(datfile, inifile, iniheading, endlevel, fakeendlevel, creditslevel, decade, soundon) ==
    [datfile |-> datfile, inifile |-> inifile, iniheading |-> iniheading,
     endlevel |-> endlevel, fakeendlevel |-> fakeendlevel,
     creditslevel |-> creditslevel, decade |-> decade, soundon |-> soundon]

\* the level numbers chosen comparing the name as it is spelled
DeriveLevels_CaseSensitive(count, setname) ==
    <<Some(count),
      IF count = 149 THEN Some(144) ELSE None,
      IF setname = DEFAULT_DAT THEN Some(145) ELSE Some(0)>>

\* the level numbers playchip chooses for a levelset of count levels
\* named setname: <<endlevel, fake, credits>>
DeriveLevels(count, setname) ==
    <<Some(count),
      IF count = 149 THEN Some(144) ELSE None,
      IF upper(setname) = DEFAULT_DAT THEN Some(145) ELSE Some(0)>>

\* the arguments playchip calls patchexe with
Derive(count, setname) ==
    LET l == DeriveLevels(count, setname)
    IN  Request(None, Some(DEFAULT_INI), Some(prefix(setname, HEADING_LENGTH)),
                l[1], l[2], l[3], Some(FALSE), Some(TRUE))

\* ------------------------------------------------------------ inputs

\* a file of the given size: every kept byte below the size is fill, but
\* the decade byte, which is decade
Fill(size, fill, decade) ==
    [size |-> size,
     data |-> [o \in Tracked |->
                 IF o >= size THEN 0
                 ELSE IF o = DECADE_OFFSET THEN decade ELSE fill]]

\* the executables a command may find: of the full size with decade
\* messages on, of the full size with an unknown decade byte, one byte
\* short, and empty
BaseFiles ==
    {Fill(CHIPS_EXE_SIZE, 255, DECADE_VALUES[2]),
     Fill(CHIPS_EXE_SIZE, 255, 255),
     Fill(CHIPS_EXE_SIZE - 1, 0, DECADE_VALUES[1]),
     Fill(0, 0, 0)}

\* the strings a caller passes: "A" * n, and one with a zero byte inside
Strings == {[i \in 1..n |-> 65] : n \in 0..MaxStrLen} \cup {<<65, 0, 66>>}

\* the level numbers a caller passes
Levels == {-1, 0, 1, 5, 10, 11, 999, 1000}

Opt(S) == {None} \cup {Some(v) : v \in S}

\* patchexe's callers: every combination of the three strings with valid
\* levels, and every combination of the three levels and the flags
Requests ==
    {Request(d, i, h, Some(10), None, None, Some(FALSE), None) :
        d \in Opt(Strings), i \in Opt(Strings), h \in Opt(Strings)}
    \cup
    {Request(d, None, None, l[1], l[2], l[3], f, f) :
        d \in Opt({<<65>>}),
        l \in Opt(Levels) \X Opt(Levels) \X Opt(Levels),
        f \in Opt(BOOLEAN)}

\* the level counts of the levelsets played
Counts == {0, 1, 100, 144, 145, 149, 150, 999, 1000, 65535}

\* levelset files: a header with each count, one with a wrong signature,
\* one cut off before the count
Headers ==
    {CHIPSSIG \o <<1, 0>> \o <<c % 256, c \div 256>> : c \in Counts}
    \cup {<<172, 171, 1, 0, 149, 0>>, CHIPSSIG \o <<1, 0>>}

\* levelset file names: "CHIPS.DAT", "chips.dat", "Chips.Dat",
\* "CUSTOM.DAT", "CHIPS.DA", "ABCDEFGHIJKLMNOPQ.DAT"
Names ==
    {<<67, 72, 73, 80, 83, 46, 68, 65, 84>>,
     <<99, 104, 105, 112, 115, 46, 100, 97, 116>>,
     <<67, 104, 105, 112, 115, 46, 68, 97, 116>>,
     <<67, 85, 83, 84, 79, 77, 46, 68, 65, 84>>,
     <<67, 72, 73, 80, 83, 46, 68, 65>>,
     <<65, 66, 67, 68, 69, 70, 71, 72, 73, 74, 75, 76, 77, 78, 79, 80, 81,
       46, 68, 65, 84>>}

\* ------------------------------------------------------------ the state

VARIABLES
    exe,        \* the installed chips.exe: [size, data]
    before,     \* the installed chips.exe before the command that changed it
    pc,         \* "start", "modified" (a command has run), "dumped"
    cmd,        \* the command that ran first: "patch", "play", "init", "none"
    lastOp,     \* the command that ran last
    req,        \* the arguments of the command's patchexe call
    result,     \* how the command ended: "ok" or the exception raised
    args,       \* the command's inputs: levelset header and name, source exe
    checked,    \* the last command's checkexe passed
    accessed,   \* the last command called patchexe or readexe
    dumpResult, \* how the dump ended
    info        \* what the dump reported

vars == <<exe, before, pc, cmd, lastOp, req, result, args, checked, accessed,
          dumpResult, info>>

NoReq == Request(None, None, None, None, None, None, None, None)

NoArgs == [header |-> <<>>, setname |-> <<>>, source |-> Fill(0, 0, 0)]

Init ==
    /\ exe \in BaseFiles
    /\ before = exe
    /\ pc = "start"
    /\ cmd = "none"
    /\ lastOp = "none"
    /\ req = NoReq
    /\ result = "none"
    /\ args = NoArgs
    /\ checked = FALSE
    /\ accessed = FALSE
    /\ dumpResult = "none"
    /\ info = NoInfo

\* a call of patchexe(exe, **r), for some arguments r
Patch ==
    /\ pc = "start"
    /\ \E r \in Requests :
        LET p == patchexe(exe, r)
        IN  /\ exe' = p.file
            /\ result' = p.result
            /\ req' = r
    /\ before' = exe
    /\ pc' = "modified"
    /\ cmd' = "patch"
    /\ lastOp' = "patch"
    /\ checked' = FALSE
    /\ accessed' = TRUE
    /\ UNCHANGED <<args, dumpResult, info>>

\* main(["-dump"]): checkexe, then readexe
Dump ==
    /\ pc \in {"start", "modified"}
    /\ IF ~checkexe(exe)
       THEN /\ dumpResult' = "InvalidExe"
            /\ info' = NoInfo
            /\ checked' = FALSE
            /\ accessed' = FALSE
       ELSE /\ dumpResult' = readexe(exe).result
            /\ info' = readexe(exe).info
            /\ checked' = TRUE
            /\ accessed' = TRUE
    /\ pc' = "dumped"
    /\ lastOp' = "dump"
    /\ UNCHANGED <<exe, before, cmd, req, result, args>>

\* main(["-init", path]): checkexe on the executable at path, then the copy
\* over the installed one, for some executable at path
Initialize ==
    /\ pc = "start"
    /\ \E source \in BaseFiles :
        /\ IF ~checkexe(source)
           THEN /\ result' = "InvalidExe"
                /\ exe' = exe
                /\ checked' = FALSE
           ELSE /\ result' = "ok"
                /\ exe' = source
                /\ checked' = TRUE
        /\ args' = [NoArgs EXCEPT !.source = source]
    /\ before' = exe
    /\ pc' = "modified"
    /\ cmd' = "init"
    /\ lastOp' = "init"
    /\ accessed' = FALSE
    /\ UNCHANGED <<req, dumpResult, info>>

\* main([levelset]): playchip on some levelset file, of the given bytes and
\* file name
Play ==
    /\ pc = "start"
    /\ \E header \in Headers, setname \in Names :
        LET ls == LevelsetInfo(header)
            r  == Derive(ls.count, setname)
            p  == patchexe(exe, r)
        IN  /\ IF ls.result # "ok"
               THEN /\ result' = ls.result
                    /\ exe' = exe
                    /\ req' = NoReq
                    /\ accessed' = FALSE
               ELSE /\ result' = p.result
                    /\ exe' = p.file
                    /\ req' = r
                    /\ accessed' = TRUE
            /\ args' = [NoArgs EXCEPT !.header = header, !.setname = setname]
    /\ before' = exe
    /\ pc' = "modified"
    /\ cmd' = "play"
    /\ lastOp' = "play"
    /\ checked' = FALSE
    /\ UNCHANGED <<dumpResult, info>>

Next ==
    \/ Patch
    \/ Dump
    \/ Initialize
    \/ Play

Spec == Init /\ [][Next]_vars

\* ------------------------------------------------------------ properties

\* the request's fake end level and credits level as the specification
\* resolves them: an unset fake end level is the end level, an unset
\* credits level is the fake end level
SpecFake(r) == IF r.fakeendlevel = None THEN r.endlevel ELSE r.fakeendlevel

SpecCredits(r) == IF r.creditslevel = None THEN SpecFake(r) ELSE r.creditslevel

\* a call of patchexe has run (directly, or from playchip)
Patched == cmd = "patch" \/ (cmd = "play" /\ result \notin {"NotALevelset", "struct.error"})

\* some string of the request is longer than the given limits
LongerThan(r, dat, ini, heading) ==
    \/ r.datfile # None /\ Len(r.datfile[1]) > dat
    \/ r.inifile # None /\ Len(r.inifile[1]) > ini
    \/ r.iniheading # None /\ Len(r.iniheading[1]) > heading

\* no string of the request holds a zero byte
NulFree(r) ==
    \A s \in {r.datfile, r.inifile, r.iniheading} :
        s # None => \A i \in 1..Len(s[1]) : s[1][i] # 0

\* the bytes of the file at offsets o .. o + n - 1
Bytes(f, o, n) == [i \in 1..n |-> f.data[o + i - 1]]

\* the command found an executable that passes checkexe
FullSize == before.size >= 267776

\* C1: if patchexe (on an executable of the full size) fails with a
\* validation error (a string too long, a level out of range or out of
\* order, the decade byte not one of the two known values), the file is
\* byte for byte what it was before the call.
C1_AllOrNothing ==
    (/\ cmd = "patch"
     /\ FullSize
     /\ result \in {"StringTooLongError", "ValueError", "AssertionError"})
    => exe = before

\* what the dump reports is what the request asked for: each string, the
\* decade flag, and each level at every one of its offsets
DumpMatches(r, i) ==
    /\ r.datfile # None => i.datfile = r.datfile[1]
    /\ r.inifile # None => i.inifile = r.inifile[1]
    /\ r.iniheading # None => i.iniheading = r.iniheading[1]
    /\ r.decade # None => i.decade = r.decade[1]
    /\ r.endlevel # None =>
         i.endlevel = <<r.endlevel[1], r.endlevel[1], r.endlevel[1]>>
    /\ SpecFake(r) # None =>
         i.fakeendlevel = <<SpecFake(r)[1], SpecFake(r)[1]>>
    /\ SpecCredits(r) # None =>
         i.creditslevel = <<SpecCredits(r)[1], SpecCredits(r)[1]>>

\* a successful patchexe has been followed by a successful dump
PatchedAndDumped ==
    Patched /\ result = "ok" /\ lastOp = "dump" /\ dumpResult = "ok"

\* C2 (as stated): after a successful patch, the dump returns the requested
\* value of every field of the request, at every offset of the field.
C2_RoundTrip ==
    PatchedAndDumped => DumpMatches(req, info)

\* C2 (amended): after a successful patch whose strings hold no zero byte,
\* the dump returns the requested value of every field of the request, at
\* every offset of the field.
C2_RoundTripNulFree ==
    (PatchedAndDumped /\ NulFree(req)) => DumpMatches(req, info)

\* a patch of all three strings at their greatest lengths, levels and the
\* decade flag, dumped
C2_Witness ==
    /\ PatchedAndDumped
    /\ cmd = "patch"
    /\ req.datfile # None /\ Len(req.datfile[1]) = 9
    /\ req.inifile # None /\ Len(req.inifile[1]) = 11
    /\ req.iniheading # None /\ Len(req.iniheading[1]) = 16
    /\ req.endlevel = Some(10)
    /\ req.decade = Some(FALSE)
    /\ before.data[DECADE_OFFSET] = 210

\* C3: a request (on an executable of the full size) that sets only
\* strings within their limits, and none of the three levels (nor the
\* decade flag), succeeds, and leaves the bytes of every unset field as
\* they were.
C3_FieldsOptional ==
    (/\ cmd = "patch"
     /\ FullSize
     /\ req.endlevel = None /\ req.fakeendlevel = None /\ req.creditslevel = None
     /\ req.decade = None
     /\ ~LongerThan(req, 9, 11, 16))
    => /\ result = "ok"
       /\ \A o \in SeqRange(ENDLEVEL_OFFSETS) \cup SeqRange(FAKEENDLEVEL_OFFSETS) :
            Bytes(exe, o, 2) = Bytes(before, o, 2)
       /\ \A o \in SeqRange(CREDITSLEVEL_OFFSETS) :
            Bytes(exe, o, 3) = Bytes(before, o, 3)
       /\ Bytes(exe, DECADE_OFFSET, 1) = Bytes(before, DECADE_OFFSET, 1)
       /\ req.soundon = None =>
            Bytes(exe, SOUND_OFFSET, 1) = Bytes(before, SOUND_OFFSET, 1)

\* C4 (as stated): patchexe raises StringTooLongError exactly when the data
\* file name is longer than 9, the ini file name longer than 11 or the
\* heading longer than 17 characters.
C4_StringLimits17 ==
    cmd = "patch" =>
        (result = "StringTooLongError" <=> LongerThan(req, 9, 11, 17))

\* C4 (amended): patchexe raises StringTooLongError exactly when the data
\* file name is longer than 9, the ini file name longer than 11 or the
\* heading longer than 16 characters.
C4_StringLimits16 ==
    cmd = "patch" =>
        (result = "StringTooLongError" <=> LongerThan(req, 9, 11, 16))

\* a patch with all three strings at their limits has succeeded
C4_Witness ==
    /\ cmd = "patch"
    /\ result = "ok"
    /\ req.datfile # None /\ Len(req.datfile[1]) = 9
    /\ req.inifile # None /\ Len(req.inifile[1]) = 11
    /\ req.iniheading # None /\ Len(req.iniheading[1]) = 16

\* the levels the specification accepts, after its default resolution
SpecAccepts(r) ==
    /\ r.endlevel # None
    /\ 1 <= r.endlevel[1] /\ r.endlevel[1] <= 999
    /\ 0 <= SpecFake(r)[1] /\ SpecFake(r)[1] <= r.endlevel[1]
    /\ \/ SpecCredits(r)[1] = 0
       \/ /\ 1 <= SpecFake(r)[1]
          /\ SpecFake(r)[1] <= SpecCredits(r)[1]
          /\ SpecCredits(r)[1] <= r.endlevel[1]

\* C5: patchexe (its strings being short enough) raises ValueError exactly
\* when the levels are not 1 <= end <= 999, 0 <= fake <= end and
\* (credits = 0 or 1 <= fake <= credits <= end), after default resolution.
C5_LevelValidation ==
    (cmd = "patch" /\ result # "StringTooLongError")
    => (result = "ValueError" <=> ~SpecAccepts(req))

\* three distinct levels in order have been accepted
C5_Witness ==
    /\ cmd = "patch"
    /\ req.endlevel = Some(11)
    /\ req.fakeendlevel = Some(5)
    /\ req.creditslevel = Some(10)
    /\ result = "ok"

\* C6 (as stated): a request with credits level 0 never fails with
\* ValueError, whatever the end level and the fake end level are.
C6_ZeroAlwaysOk ==
    (cmd = "patch" /\ req.creditslevel = Some(0)) => result # "ValueError"

\* C6 (amended): a request with credits level 0 (its strings being short
\* enough) fails with ValueError exactly when the end level is unset or
\* outside 1..999, or the fake end level, defaulting to the end level, is
\* outside 0..end level: the credits level itself is never the reason.
C6_ZeroNeedsEndAndFake ==
    (cmd = "patch" /\ req.creditslevel = Some(0) /\ result # "StringTooLongError")
    => (result = "ValueError" <=>
            ~(/\ req.endlevel # None
              /\ 1 <= req.endlevel[1] /\ req.endlevel[1] <= 999
              /\ 0 <= SpecFake(req)[1] /\ SpecFake(req)[1] <= req.endlevel[1]))

\* credits level 0 has been accepted below a fake end level of 5
C6_Witness ==
    /\ cmd = "patch"
    /\ req.endlevel = Some(10)
    /\ req.fakeendlevel = Some(5)
    /\ req.creditslevel = Some(0)
    /\ result = "ok"

\* C7: in initialize, dump and play, patchexe and readexe are called only
\* after checkexe has passed in the same command, so that play patches no
\* executable shorter than 267776 bytes.
C7_CheckGates ==
    lastOp \in {"init", "dump", "play"}
    => /\ accessed => checked
       /\ (lastOp = "play" /\ exe # before) => FullSize

\* a and b are equal but for the case of their letters
EqualIgnoringCase(a, b) ==
    /\ Len(a) = Len(b)
    /\ \A i \in 1..Len(a) :
         \/ a[i] = b[i]
         \/ a[i] \in 65..90 /\ b[i] = a[i] + 32
         \/ a[i] \in 97..122 /\ b[i] = a[i] - 32

\* the level count of a levelset header, bytes 4 and 5, little-endian
HeaderCount(header) == header[5] + 256 * header[6]

\* C8: playchip calls patchexe with end level = the header's level count,
\* fake end level 144 if the count is 149 and unset otherwise, credits
\* level 145 if the name is "CHIPS.DAT" in any case and 0 otherwise, the
\* decade messages off and the sound on.
C8_Derivation ==
    (cmd = "play" /\ result \notin {"NotALevelset", "struct.error"})
    => /\ req.endlevel = Some(HeaderCount(args.header))
       /\ req.fakeendlevel =
            (IF HeaderCount(args.header) = 149 THEN Some(144) ELSE None)
       /\ req.creditslevel =
            (IF EqualIgnoringCase(args.setname, <<67, 72, 73, 80, 83, 46, 68, 65, 84>>)
             THEN Some(145) ELSE Some(0))
       /\ req.decade = Some(FALSE)
       /\ req.soundon = Some(TRUE)

\* "chips.dat" with 149 levels has derived (149, 144, 145)
C8_Witness ==
    /\ cmd = "play"
    /\ args.setname = <<99, 104, 105, 112, 115, 46, 100, 97, 116>>
    /\ req.endlevel = Some(149)
    /\ req.fakeendlevel = Some(144)
    /\ req.creditslevel = Some(145)

\* the signed 16-bit little-endian word of two bytes
Word(b) ==
    IF b[2] >= 128 THEN b[1] + 256 * b[2] - 65536 ELSE b[1] + 256 * b[2]

\* C9: after a successful patchexe with resolved credits level c, at 0x9F85
\* and at 0xA6D9 the word is c and the byte after it is 0x7C if c > 0 and
\* 0x75 if c = 0.
C9_CreditsOpcode ==
    (Patched /\ result = "ok")
    => \A o \in {40837, 42713} :
         /\ Word(Bytes(exe, o, 2)) = SpecCredits(req)[1]
         /\ exe.data[o + 2] = (IF SpecCredits(req)[1] > 0 THEN 124 ELSE 117)
         /\ SpecCredits(req)[1] >= 0

\* credits level 0 has been written, over bytes that were not 0x75
C9_Witness ==
    /\ cmd = "patch"
    /\ result = "ok"
    /\ req.creditslevel = Some(0)
    /\ before.data[40839] = 255
    /\ exe.data[40839] = 117

\* C10: playchip (on an executable of the full size) on a levelset of 1
\* to 999 levels never fails with ValueError, whatever the levelset's name.
C10_DerivedValid ==
    (/\ cmd = "play"
     /\ FullSize
     /\ result \notin {"NotALevelset", "struct.error"}
     /\ HeaderCount(args.header) \in 1..999)
    => result # "ValueError"

====
